---- MODULE Spec2Model ----
(***************************************************************************)
(* Payment settlement protocol of the top-up storefront:                   *)
(*   - PaymentModal (components/OrderLookup.tsx, second half): QR          *)
(*     issuance, price re-verification, token reservation, settlement      *)
(*     polling, expiry timeout and expiry countdown;                       *)
(*   - the reconciliation cron handler (unnamed/part_001): sweep of the    *)
(*     unused payment tokens with double verification, notifications and   *)
(*     their retry queue;                                                  *)
(*   - the verify-payment endpoint (unnamed/part_000) and the OrderLookup  *)
(*     component (components/OrderLookup.tsx, first half);                 *)
(*   - the payment switch and the payment_tokens table as shared           *)
(*     environment.                                                        *)
(* Amounts are integer cents, times are whole seconds.                     *)
(***************************************************************************)
EXTENDS Integers, Sequences, FiniteSets, TLC

\* ---------------------------------------------------------------- bounds
MaxHash == 2            \* correlation hashes the payment switch can hand out
MaxSweepers == 2        \* overlapping invocations of the cron handler
MaxInFlight == 1        \* verify-payment requests of the poller awaiting a reply
MaxQueue == 2           \* entries the notification queue can hold
MaxKhqrRequests == 2    \* QR-creation requests sent by one modal session

\* ----------------------------------------------------- program constants
QR_COOLDOWN_PERIOD == 180      \* seconds
QR_EXPIRY_PERIOD == 300        \* 5 * 60 * 1000 ms
PAYMENT_WINDOW == 1800         \* 30 * 60 * 1000 ms
MinAmount == 1                 \* 0.01 USD, in cents
PriceTolerance == 1            \* 0.01 USD, in cents

Hashes == 1..MaxHash
Sweepers == 1..MaxSweepers
NoHash == 0

\* Date.now() at the moment the modal is mounted: far larger than any period.
StartTime == PAYMENT_WINDOW + QR_EXPIRY_PERIOD
\* The instants (seconds after mount) at which anything happens.
Offsets == {0, 60, 181, 300, 1800}
Instants == {StartTime + o : o \in Offsets}

\* Inputs of the modal (props) and of the catalog reads, in cents.
FormPrices == {1000}
Discounts == {0, 100}
CatalogPrices == {1000, 1200}
ResellerPrices == {900}
NoCode == -1             \* no responseCode: none sent, or a body that is not JSON
NoRow == -1

VARIABLES
  now,               \* Date.now(), seconds
  issued,            \* hashes the payment switch has created a QR for
  settled,           \* hashes whose payment has cleared at the payment switch
  tokens,            \* payment_tokens table, keyed by md5
  productPrice,      \* form.product.price
  discountPercent,   \* prop discountPercent
  status,            \* modal state 'pending' | 'checking' | 'success' | 'error'
  errorMessage,
  qrCode,            \* a QR image is held in state
  md5Hash,
  isProcessing,
  lastQrGeneration,
  qrCooldown,
  showMessage,
  qrExpired,
  pcGen,             \* position of the running generateKHQR call
  genNow,            \* `now` captured by the running generateKHQR call
  genMd5,            \* md5Hash as seen by the closure of the running call
  respMd5,           \* md5 of the QR-creation response being stored
  expiryTimeoutRef,  \* deadline of the armed expiry timeout, 0 when none
  expiryMd5,         \* md5Hash captured by the armed expiry timeout
  cooldownIntervalRef,
  pollInFlight,      \* verify-payment requests sent and not yet answered
  closed,            \* the modal has been closed (PaymentModal unmounted)
  sweep,             \* per cron invocation: position, snapshot, current token
  api,               \* the verify-payment handler serving one request
  cron,              \* per cron invocation, step by step with its notifications
  messageQueue,      \* the notification retry queue (module global)
  isProcessingQueue, \* the drain-in-progress flag (module global)
  lookup,            \* state of the OrderLookup component
  orders,            \* payment_tokens, column order_data->>orderId, per row
  \* history variables
  fulfilments,       \* per hash: fulfilments performed (update + dispatch)
  khqrRequests,      \* QR-creation requests sent by this session
  issuanceCalls,     \* network calls made by QR issuance (khqr, price, rpc)
  lastAttempt        \* last run of generateKHQR: time, result, blocking gate

vars == <<now, issued, settled, tokens, productPrice, discountPercent, status,
          errorMessage, qrCode, md5Hash, isProcessing, lastQrGeneration,
          qrCooldown, showMessage, qrExpired, pcGen, genNow, genMd5, respMd5,
          expiryTimeoutRef, expiryMd5, cooldownIntervalRef, pollInFlight,
          closed, sweep, api, cron, messageQueue, isProcessingQueue,
          lookup, orders, fulfilments, khqrRequests, issuanceCalls,
          lastAttempt>>

envVars == <<now, issued, settled>>
propVars == <<productPrice, discountPercent>>
modalVars == <<status, errorMessage, qrCode, md5Hash, isProcessing,
               lastQrGeneration, qrCooldown, showMessage, qrExpired>>
genVars == <<pcGen, genNow, genMd5, respMd5>>
timerVars == <<expiryTimeoutRef, expiryMd5, cooldownIntervalRef>>
histVars == <<fulfilments, khqrRequests, issuanceCalls, lastAttempt>>
\* the payment session and the sweep: everything but the edge handlers
payVars == <<envVars, tokens, propVars, modalVars, genVars, timerVars,
             pollInFlight, closed, sweep, histVars>>
\* state of the edge handlers that have a specification of their own
apiVars == <<api>>
notifyVars == <<cron, messageQueue, isProcessingQueue>>
lookupVars == <<lookup, orders>>
edgeVars == <<apiVars, notifyVars, lookupVars>>
\* what no step of an open payment session changes
fixedVars == <<propVars, closed, edgeVars>>

\* ---------------------------------------------------------------- helpers
Abs(x) == IF x < 0 THEN -x ELSE x
Max(a, b) == IF a > b THEN a ELSE b

\* Math.round(x / 100) for a non-negative integer x (half rounds up).
RoundDiv100(x) == (x + 50) \div 100

AbsentToken == [status |-> "absent", used |-> FALSE, createdAt |-> 0,
                orderData |-> "none"]

\* finalAmount (useMemo): price minus discount, rounded to cents.
FinalAmount(price, discount) ==
  IF price = 0 THEN 0 ELSE RoundDiv100(price * (100 - discount))

finalAmount == FinalAmount(productPrice, discountPercent)

\* verifyCurrentPrice: the product row, then the reseller row when the
\* session is a reseller; NoRow on a failed product read (returns null).
VerifyCurrentPrice(productRow, isReseller, resellerRow) ==
  IF productRow = NoRow THEN NoRow
  ELSE IF isReseller
       THEN IF resellerRow = NoRow THEN productRow ELSE resellerRow
       ELSE productRow

\* storePayment: expectedFinalAmount.
ExpectedFinalAmount(currentPrice, discount) ==
  RoundDiv100(currentPrice * (100 - discount))

\* storePayment: Math.abs(expectedFinalAmount - finalAmount) > 0.01.
PriceHasChanged(expected, final) == Abs(expected - final) > PriceTolerance

\* generateKHQR: remainingCooldown (times are whole seconds, so the
\* Math.ceil of the millisecond quotient changes nothing).
RemainingCooldown(t, last) == QR_COOLDOWN_PERIOD - (t - last)

\* startQrCooldown: the updater run by the one-second interval.  (The
\* interval is only started by the cooldown branch of generateKHQR.)
CooldownStep(prev) == IF prev <= 1 THEN 0 ELSE prev - 1

\* The poll effect: an interval is running exactly under this condition.
PollIntervalActive ==
  /\ ~closed
  /\ md5Hash # NoHash
  /\ ~showMessage
  /\ status \notin {"success", "error"}
  /\ ~qrExpired

\* The countdown effect: an interval is running exactly under this condition.
CountdownActive == ~closed /\ qrCode /\ ~qrExpired

\* A state setter called by a continuation that outlives the modal: React
\* ignores state updates of an unmounted component.
SetState(cur, new) == IF closed THEN cur ELSE new

SweepIdle == [pc |-> "idle", todo |-> <<>>, results |-> 0]

\* A notification: chat, text (the token whose order it announces) and the
\* retry count.  (The timestamp field is written and never read.)
Message(chatId, text, retryCount) ==
  [chatId |-> chatId, text |-> text, retryCount |-> retryCount]

\* A cron invocation at rest.
\* (reads and skip are history: how many of the two checks of the token
\* handled last said settled, kept until the loop is left behind, and why
\* the processMessageQueue call of the pass returned at once.)
CronIdle == [pc |-> "idle", todo |-> <<>>, reads |-> 0, main |-> FALSE,
             results |-> <<>>, skip |-> "no", resp |-> "none"]

\* A row without an orderId in its order_data, and no order on display.
NoOrderId == <<>>
NoDetails == [row |-> NoHash, orderId |-> <<>>]

\* The OrderLookup component as mounted: empty input, nothing shown.
\* (submitted and searchId belong to the running handleSubmit call: the
\* orderId its closure holds and the id it searches for.)
LookupIdle == [orderId |-> <<>>, loading |-> FALSE, error |-> "none",
               orderDetails |-> NoDetails, submitted |-> <<>>,
               searchId |-> <<>>]

\* The verify-payment handler between two requests.
ApiIdle == [pc |-> "idle", attempts |-> 0, log |-> <<>>,
            resp |-> [status |-> 0, responseCode |-> NoCode]]

\* ------------------------------------------------------------------- Init
\* A payment session that has just opened its modal, and the handlers at
\* rest (the order-id column of the table left open).
SessionInitOpen ==
  /\ productPrice \in FormPrices
  /\ discountPercent \in Discounts
  /\ status = "pending"
  /\ errorMessage = ""
  /\ qrCode = FALSE
  /\ md5Hash = NoHash
  /\ isProcessing = FALSE
  /\ lastQrGeneration = 0
  /\ qrCooldown = 0
  /\ showMessage = TRUE
  /\ qrExpired = FALSE
  /\ pcGen = "idle"
  /\ genNow = 0
  /\ genMd5 = NoHash
  /\ respMd5 = NoHash
  /\ expiryTimeoutRef = 0
  /\ expiryMd5 = NoHash
  /\ cooldownIntervalRef = FALSE
  /\ pollInFlight = 0
  /\ closed = FALSE
  /\ sweep = [c \in Sweepers |-> SweepIdle]
  /\ api = ApiIdle
  /\ cron = [c \in Sweepers |-> CronIdle]
  /\ messageQueue = <<>>
  /\ isProcessingQueue = FALSE
  /\ lookup = LookupIdle
  /\ fulfilments = [h \in Hashes |-> 0]
  /\ khqrRequests = 0
  /\ issuanceCalls = 0
  /\ lastAttempt = [at |-> 0, result |-> "none", gate |-> "none"]

\* The rows' order ids play no part outside the order lookup.
SessionInit ==
  /\ SessionInitOpen
  /\ orders = [h \in Hashes |-> NoOrderId]

Init ==
  /\ now = StartTime
  /\ issued = {}
  /\ settled = {}
  /\ tokens = [h \in Hashes |-> AbsentToken]
  /\ SessionInit

\* ------------------------------------------------------------ environment
\* Time passes to the next instant.
Tick ==
  /\ \E t \in Instants :
       /\ t > now
       /\ \A u \in Instants : u > now => t <= u
       /\ now' = t
  /\ UNCHANGED <<issued, settled, tokens, fixedVars, modalVars, genVars,
                 timerVars, pollInFlight, sweep, histVars>>

\* The payer pays a QR the switch has issued.
PaySettle(h) ==
  /\ h \in issued
  /\ h \notin settled
  /\ settled' = settled \cup {h}
  /\ UNCHANGED <<now, issued, tokens, fixedVars, modalVars, genVars,
                 timerVars, pollInFlight, sweep, histVars>>

\* ------------------------------------------------------------ PaymentModal
\* handleContinue ("Pay Now"): leaves the order summary.
HandleContinue ==
  /\ ~closed
  /\ showMessage
  /\ showMessage' = FALSE
  /\ UNCHANGED <<envVars, tokens, fixedVars, status, errorMessage, qrCode,
                 md5Hash, isProcessing, lastQrGeneration, qrCooldown,
                 qrExpired, genVars, timerVars, pollInFlight, sweep,
                 histVars>>

\* generateKHQR, line 403: the first condition that makes the call return.
Gate ==
  CASE isProcessing -> "processing"
    [] finalAmount < MinAmount -> "amount"
    [] qrCode -> "qrCode"
    [] qrCooldown > 0 -> "cooldown"
    [] showMessage -> "message"
    [] OTHER -> "none"

\* generateKHQR, up to its first await (the POST to /api/khqr).  The effect
\* runs the function whenever one of its dependencies changed.
GenerateKHQR ==
  /\ ~closed
  /\ IF Gate # "none"
       THEN \* line 403: silent return
            /\ lastAttempt' = [at |-> now, result |-> "blocked", gate |-> Gate]
            /\ UNCHANGED <<envVars, tokens, fixedVars, modalVars, genVars,
                           timerVars, pollInFlight, sweep, fulfilments,
                           khqrRequests, issuanceCalls>>
       ELSE IF now - lastQrGeneration < QR_COOLDOWN_PERIOD
       THEN \* lines 406-411: setQrCooldown(remainingCooldown), then
            \* startQrCooldown() sets QR_COOLDOWN_PERIOD in the same batch and
            \* starts the one-second interval
            /\ qrCooldown' = QR_COOLDOWN_PERIOD
            /\ cooldownIntervalRef' = TRUE
            /\ lastAttempt' = [at |-> now, result |-> "rateLimited",
                               gate |-> "none"]
            /\ UNCHANGED <<envVars, tokens, fixedVars, status, errorMessage,
                           qrCode, md5Hash, isProcessing, lastQrGeneration,
                           showMessage, qrExpired, genVars, expiryTimeoutRef,
                           expiryMd5, pollInFlight, sweep, fulfilments,
                           khqrRequests, issuanceCalls>>
       ELSE \* lines 413-429; the throw of line 418 cannot be reached past the
            \* gate of line 403
            /\ khqrRequests < MaxKhqrRequests
            /\ status' = "checking"
            /\ errorMessage' = ""
            /\ isProcessing' = TRUE
            /\ pcGen' = "khqr"
            /\ genNow' = now
            /\ genMd5' = md5Hash
            /\ khqrRequests' = khqrRequests + 1
            /\ issuanceCalls' = issuanceCalls + 1
            /\ lastAttempt' = [at |-> now, result |-> "sent", gate |-> "none"]
            /\ UNCHANGED <<envVars, tokens, fixedVars, qrCode, md5Hash,
                           lastQrGeneration, qrCooldown, showMessage, qrExpired,
                           respMd5, timerVars, pollInFlight, sweep, fulfilments>>

\* generateKHQR: the reply of /api/khqr.  ok: status 200/201 with success,
\* qrImage and md5; the QR is put on display and storePayment starts with
\* its price read.  Otherwise the catch block reports the error.
KhqrResponse(ok) ==
  /\ pcGen = "khqr"
  /\ IF ok
     THEN LET h == CHOOSE x \in Hashes \ issued :
                     \A y \in Hashes \ issued : x <= y
          IN /\ Hashes \ issued # {}
             /\ issued' = issued \cup {h}
             /\ qrCode' = SetState(qrCode, TRUE)
             /\ md5Hash' = SetState(md5Hash, h)
             /\ lastQrGeneration' = SetState(lastQrGeneration, genNow)
             /\ qrExpired' = SetState(qrExpired, FALSE)
             /\ respMd5' = h
             /\ pcGen' = "price"
             /\ issuanceCalls' = issuanceCalls + 1
             /\ UNCHANGED <<status, errorMessage, isProcessing>>
     ELSE /\ status' = SetState(status, "error")
          /\ errorMessage' = SetState(errorMessage, "qrFailed")
          /\ isProcessing' = SetState(isProcessing, FALSE)
          /\ pcGen' = "idle"
          /\ UNCHANGED <<issued, qrCode, md5Hash, lastQrGeneration,
                         qrExpired, respMd5, issuanceCalls>>
  /\ UNCHANGED <<now, settled, tokens, fixedVars, qrCooldown, showMessage,
                 genNow, genMd5, timerVars, pollInFlight, sweep, fulfilments,
                 khqrRequests, lastAttempt>>

\* What generateKHQR does once storePayment has returned (token or null):
\* it arms the expiry timeout, whose closure holds the md5Hash of the render
\* that started the call, and the finally block clears isProcessing.
ArmExpiry ==
  /\ expiryTimeoutRef' = now + QR_EXPIRY_PERIOD
  /\ expiryMd5' = genMd5
  /\ isProcessing' = SetState(isProcessing, FALSE)
  /\ pcGen' = "idle"

\* storePayment: the reply of verifyCurrentPrice and the price comparison.
StorePaymentPrice(productRow, isReseller, resellerRow) ==
  /\ pcGen = "price"
  /\ LET currentPrice == VerifyCurrentPrice(productRow, isReseller, resellerRow)
         expected == ExpectedFinalAmount(currentPrice, discountPercent)
     IN IF currentPrice = NoRow
        THEN /\ status' = SetState(status, "error")
             /\ errorMessage' = SetState(errorMessage, "priceUnverified")
             /\ ArmExpiry
             /\ UNCHANGED issuanceCalls
        ELSE IF PriceHasChanged(expected, finalAmount)
        THEN /\ status' = SetState(status, "error")
             /\ errorMessage' = SetState(errorMessage, "priceChanged")
             /\ ArmExpiry
             /\ UNCHANGED issuanceCalls
        ELSE \* the create_payment_token call is sent
             /\ pcGen' = "rpc"
             /\ issuanceCalls' = issuanceCalls + 1
             /\ UNCHANGED <<status, errorMessage, isProcessing,
                            expiryTimeoutRef, expiryMd5>>
  /\ UNCHANGED <<envVars, tokens, fixedVars, qrCode, md5Hash,
                 lastQrGeneration, qrCooldown, showMessage, qrExpired, genNow,
                 genMd5, respMd5, cooldownIntervalRef, pollInFlight, sweep,
                 fulfilments, khqrRequests, lastAttempt>>

\* create_payment_token(p_md5, 'pending', p_order_info): a pending, unused
\* row keyed by the md5, holding the order snapshot (reserve of the token
\* store contract; the database function itself is not part of the sources).
Reserve(tk, h, t) ==
  [tk EXCEPT ![h] = [status |-> "pending", used |-> FALSE, createdAt |-> t,
                     orderData |-> "snapshot"]]

\* storePayment: the reply of the create_payment_token call.
StorePaymentRpc(ok) ==
  /\ pcGen = "rpc"
  /\ IF ok
     THEN /\ tokens' = Reserve(tokens, respMd5, now)
          /\ UNCHANGED <<status, errorMessage>>
     ELSE /\ status' = SetState(status, "error")
          /\ errorMessage' = SetState(errorMessage, "storeFailed")
          /\ UNCHANGED tokens
  /\ ArmExpiry
  /\ UNCHANGED <<envVars, fixedVars, qrCode, md5Hash, lastQrGeneration,
                 qrCooldown, showMessage, qrExpired, genNow, genMd5, respMd5,
                 cooldownIntervalRef, pollInFlight, sweep, histVars>>

\* cleanup(): every timer handle held in a ref is cleared.  (The poll
\* interval is also cleared; it is governed by PollIntervalActive.)
Cleanup ==
  /\ expiryTimeoutRef' = 0
  /\ expiryMd5' = NoHash
  /\ cooldownIntervalRef' = FALSE

\* The modal goes away: handleClose (the X button: cleanup(), onClose()) or
\* handleContinueShopping (onClose()); the parent unmounts the component, and
\* the effects' cleanup functions run cleanup() and clear the poll and
\* countdown intervals.  Calls already in flight go on.
HandleClose ==
  /\ ~closed
  /\ closed' = TRUE
  /\ Cleanup
  /\ UNCHANGED <<envVars, tokens, propVars, edgeVars, modalVars, genVars,
                 pollInFlight, sweep, histVars>>

\* The poll interval fires: verifyPayment sends POST /api/verify-payment.
\* (The qrExpired seen by the closure is the one of the render that created
\* the interval, hence false.)
PollTick ==
  /\ PollIntervalActive
  /\ pollInFlight < MaxInFlight
  /\ pollInFlight' = pollInFlight + 1
  /\ UNCHANGED <<envVars, tokens, fixedVars, modalVars, genVars, timerVars,
                 sweep, histVars>>

\* Replies the poller can get for hash h: a 2xx body with responseCode 0
\* (only when the payment has cleared), 1 or another code, or a rejected
\* request (non-2xx status such as the endpoint's 500, or a network error).
PollReplies(h) ==
  (IF h \in settled THEN {"code0"} ELSE {}) \cup {"code1", "codeOther", "throw"}

\* verifyPayment after its await: the three branches and the catch block.
PollResponse(r) ==
  /\ pollInFlight > 0
  /\ r \in PollReplies(md5Hash)
  /\ pollInFlight' = pollInFlight - 1
  /\ CASE r = "code0" ->
            /\ status' = SetState(status, "success")
            /\ Cleanup
            /\ UNCHANGED errorMessage
       [] r = "code1" ->
            UNCHANGED <<status, errorMessage, timerVars>>
       [] r = "codeOther" ->
            /\ status' = SetState(status, "error")
            /\ errorMessage' = SetState(errorMessage, "verifyFailed")
            /\ Cleanup
       [] r = "throw" ->
            /\ status' = SetState(status, "error")
            /\ errorMessage' = SetState(errorMessage, "verifyError")
            /\ Cleanup
  /\ UNCHANGED <<envVars, tokens, fixedVars, qrCode, md5Hash, isProcessing,
                 lastQrGeneration, qrCooldown, showMessage, qrExpired,
                 genVars, sweep, histVars>>

\* The expiry handlers' update of the token row:
\*   from('payment_tokens').update({status: 'unsuccessful', used: true,
\*     order_data: {...form.order_data, updated_at, error}}).eq('md5', h)
\* guarded by `if (md5Hash)`.  The query is built but neither awaited nor
\* then-ed, so whether the request leaves the client is up to the client
\* library (sent); when it does, the row with that md5 is overwritten
\* whatever its state.
MarkExpired(tk, h, sent) ==
  IF h # NoHash /\ sent /\ tk[h].status # "absent"
  THEN [tk EXCEPT ![h].status = "unsuccessful", ![h].used = TRUE,
                  ![h].orderData = "expiredStub"]
  ELSE tk

\* What both expiry handlers do to the modal.
ExpireModal ==
  /\ qrExpired' = SetState(qrExpired, TRUE)
  /\ status' = SetState(status, "error")
  /\ errorMessage' = SetState(errorMessage, "expired")
  /\ Cleanup

\* The setTimeout armed by generateKHQR fires.
ExpiryTimeout(sent) ==
  /\ expiryTimeoutRef # 0
  /\ now >= expiryTimeoutRef
  /\ ExpireModal
  /\ tokens' = MarkExpired(tokens, expiryMd5, sent)
  /\ UNCHANGED <<envVars, fixedVars, qrCode, md5Hash, isProcessing,
                 lastQrGeneration, qrCooldown, showMessage, genVars,
                 pollInFlight, sweep, histVars>>

\* The once-per-second countdown finds no time left.  (Ticks with time left
\* only refresh the displayed timeLeft.)
CountdownExpiry(sent) ==
  /\ CountdownActive
  /\ Max(0, QR_EXPIRY_PERIOD - (now - lastQrGeneration)) <= 0
  /\ ExpireModal
  /\ tokens' = MarkExpired(tokens, md5Hash, sent)
  /\ UNCHANGED <<envVars, fixedVars, qrCode, md5Hash, isProcessing,
                 lastQrGeneration, qrCooldown, showMessage, genVars,
                 pollInFlight, sweep, histVars>>

\* --------------------------------------------------- reconciliation sweep
\* The rows a pass selects: used = false and created_at > now - window.
Selected(tk, t) ==
  {h \in Hashes : /\ tk[h].status # "absent"
                  /\ tk[h].used = FALSE
                  /\ tk[h].createdAt > t - PAYMENT_WINDOW}

\* .order('created_at', {ascending: true})
RECURSIVE OrderByCreated(_, _)
OrderByCreated(S, tk) ==
  IF S = {} THEN <<>>
  ELSE LET m == CHOOSE x \in S : \A y \in S :
                  \/ tk[x].createdAt < tk[y].createdAt
                  \/ tk[x].createdAt = tk[y].createdAt /\ x <= y
       IN <<m>> \o OrderByCreated(S \ {m}, tk)

\* const md5Hash = orderData.md5; if (!md5Hash) continue;
\* The snapshot stored at reservation carries the md5; the stub written by
\* the expiry handlers does not.
HasMd5(row) == row.orderData = "snapshot"

\* The rows a pass goes through, in order: the selected rows, less the ones
\* the loop skips for want of an md5.
SweepList(tk, t) ==
  LET Keep(h) == HasMd5(tk[h])
  IN SelectSeq(OrderByCreated(Selected(tk, t), tk), Keep)

\* The handler reads the unused tokens of the window (the rows are copied
\* into the pass); a pass with nothing to check ends at once.
SweepStart(c) ==
  /\ sweep[c].pc = "idle"
  /\ SweepList(tokens, now) # <<>>
  /\ sweep' = [sweep EXCEPT ![c] =
                 [pc |-> "verify1",
                  todo |-> SweepList(tokens, now),
                  results |-> 0]]
  /\ UNCHANGED <<envVars, tokens, fixedVars, modalVars, genVars, timerVars,
                 pollInFlight, histVars>>

\* What one fetch of the switch's check_transaction_by_md5 can come to: the
\* fetch rejects (status NoStatus), or a response arrives with a status and
\* a body that is JSON with a responseCode, or is not JSON.
NoStatus == 0
SwitchStatuses == {200, 400, 500}
SwitchReplies ==
  [status : SwitchStatuses, json : {TRUE}, code : {0, 1}]
    \cup [status : SwitchStatuses \cup {NoStatus}, json : {FALSE},
          code : {NoCode}]

\* The replies the switch can give when asked about hash h: responseCode 0
\* only once the payment has cleared.
CheckReplies(h) == {r \in SwitchReplies : r.code = 0 => h \in settled}

\* A variant that trusts every 2xx reply.
VerifyPaymentAnyOk(r) == r.status \in 200..299

\* verifyPayment of the cron handler on the outcome of its one fetch: false
\* for a reply that is not ok, then data.responseCode === 0; a rejected fetch
\* and a body that does not parse end in the catch block, which gives false.
VerifyPayment(r) ==
  /\ r.status # NoStatus
  /\ r.status \in 200..299
  /\ r.json
  /\ r.code = 0

\* What verifyPayment(h) can return.
SweepReads(h) == {VerifyPayment(r) : r \in CheckReplies(h)}

\* The loop moves on to the next token, or the pass ends.
NextToken(s) ==
  IF Len(s.todo) > 1
  THEN [s EXCEPT !.pc = "verify1", !.todo = Tail(s.todo)]
  ELSE [s EXCEPT !.pc = "idle", !.todo = <<>>]

SweepVerify1(c, isVerified) ==
  /\ sweep[c].pc = "verify1"
  /\ isVerified \in SweepReads(Head(sweep[c].todo))
  /\ sweep' = [sweep EXCEPT ![c] =
                 IF isVerified THEN [sweep[c] EXCEPT !.pc = "verify2"]
                 ELSE NextToken(sweep[c])]
  /\ UNCHANGED <<envVars, tokens, fixedVars, modalVars, genVars, timerVars,
                 pollInFlight, histVars>>

SweepVerify2(c, secondVerification) ==
  /\ sweep[c].pc = "verify2"
  /\ secondVerification \in SweepReads(Head(sweep[c].todo))
  /\ sweep' = [sweep EXCEPT ![c] =
                 IF secondVerification THEN [sweep[c] EXCEPT !.pc = "update"]
                 ELSE NextToken(sweep[c])]
  /\ UNCHANGED <<envVars, tokens, fixedVars, modalVars, genVars, timerVars,
                 pollInFlight, histVars>>

\* update({used: true}).eq('id', token.id): no condition on the row's state.
MarkUsed(tk, h) == [tk EXCEPT ![h].used = TRUE]

\* The update and, when it reports no error, the dispatch of the token's two
\* messages and the result entry.
SweepFulfil(c, updateOk) ==
  /\ sweep[c].pc = "update"
  /\ LET h == Head(sweep[c].todo)
     IN IF updateOk
        THEN /\ tokens' = MarkUsed(tokens, h)
             /\ fulfilments' = [fulfilments EXCEPT ![h] = @ + 1]
             /\ sweep' = [sweep EXCEPT ![c] =
                            NextToken([sweep[c] EXCEPT !.results = @ + 1])]
        ELSE /\ sweep' = [sweep EXCEPT ![c] = NextToken(sweep[c])]
             /\ UNCHANGED <<tokens, fulfilments>>
  /\ UNCHANGED <<envVars, fixedVars, modalVars, genVars, timerVars,
                 pollInFlight, khqrRequests, issuanceCalls, lastAttempt>>

\* ------------------------------------------------------------------- Next
Next ==
  \/ Tick
  \/ \E h \in Hashes : PaySettle(h)
  \/ HandleContinue
  \/ GenerateKHQR
  \/ \E ok \in BOOLEAN : KhqrResponse(ok)
  \/ \E p \in CatalogPrices \cup {NoRow}, r \in BOOLEAN,
        q \in ResellerPrices \cup {NoRow} : StorePaymentPrice(p, r, q)
  \/ \E ok \in BOOLEAN : StorePaymentRpc(ok)
  \/ HandleClose
  \/ PollTick
  \/ \E r \in {"code0", "code1", "codeOther", "throw"} : PollResponse(r)
  \/ \E sent \in BOOLEAN : ExpiryTimeout(sent)
  \/ \E sent \in BOOLEAN : CountdownExpiry(sent)
  \/ \E c \in Sweepers : SweepStart(c)
  \/ \E c \in Sweepers, b \in BOOLEAN : SweepVerify1(c, b)
  \/ \E c \in Sweepers, b \in BOOLEAN : SweepVerify2(c, b)
  \/ \E c \in Sweepers, ok \in BOOLEAN : SweepFulfil(c, ok)

Spec == Init /\ [][Next]_vars

\* ------------------------------------------- verify-payment edge handler
maxAttempts == 3

\* The handler receives a request: OPTIONS is answered 200, any other
\* method than POST 405; a POST whose body does not parse ends in the outer
\* catch (500); otherwise the retry loop starts with its first fetch.
ApiRequest(method, bodyOk) ==
  /\ api.pc = "idle"
  /\ api' =
       IF method = "OPTIONS"
       THEN [api EXCEPT !.pc = "done",
                        !.resp = [status |-> 200, responseCode |-> NoCode]]
       ELSE IF method # "POST"
       THEN [api EXCEPT !.pc = "done",
                        !.resp = [status |-> 405, responseCode |-> NoCode]]
       ELSE IF ~bodyOk
       THEN [api EXCEPT !.pc = "done",
                        !.resp = [status |-> 500, responseCode |-> 1]]
       ELSE [api EXCEPT !.pc = "fetch", !.attempts = 0]
  /\ UNCHANGED <<payVars, notifyVars, lookupVars>>

\* attempts++ in either branch that retries: another round after the delay
\* while attempts < maxAttempts, else the loop ends and the handler answers
\* 500 with responseCode 1.
Retry(a) ==
  IF a.attempts + 1 < maxAttempts
  THEN [a EXCEPT !.attempts = @ + 1, !.pc = "delay"]
  ELSE [a EXCEPT !.attempts = @ + 1, !.pc = "done",
                 !.resp = [status |-> 500, responseCode |-> 1]]

\* One round of the loop after its fetch: a rejected fetch and a body that
\* bakongResponse.json() cannot parse both land in the catch block; a
\* parsed 2xx is answered 200, a parsed 4xx with its status; anything else
\* is retried.
ApiAttempt(a, r) ==
  IF r.status = NoStatus \/ ~r.json
  THEN Retry(a)
  ELSE IF r.status \in 200..299
  THEN [a EXCEPT !.pc = "done",
                 !.resp = [status |-> 200, responseCode |-> r.code]]
  ELSE IF r.status >= 400 /\ r.status < 500
  THEN [a EXCEPT !.pc = "done",
                 !.resp = [status |-> r.status, responseCode |-> r.code]]
  ELSE Retry(a)

\* The switch's reply to the pending fetch arrives.
ApiReply(r) ==
  /\ api.pc = "fetch"
  /\ api' = ApiAttempt([api EXCEPT !.log = Append(@, r)], r)
  /\ UNCHANGED <<payVars, notifyVars, lookupVars>>

\* The delay between two attempts is over.
ApiDelay ==
  /\ api.pc = "delay"
  /\ api' = [api EXCEPT !.pc = "fetch"]
  /\ UNCHANGED <<payVars, notifyVars, lookupVars>>

\* The response is sent; the handler is ready for the next request.
ApiRespond ==
  /\ api.pc = "done"
  /\ api' = ApiIdle
  /\ UNCHANGED <<payVars, notifyVars, lookupVars>>

VerifyNext ==
  \/ \E method \in {"OPTIONS", "GET", "POST"}, bodyOk \in BOOLEAN :
       ApiRequest(method, bodyOk)
  \/ \E r \in SwitchReplies : ApiReply(r)
  \/ ApiDelay
  \/ ApiRespond

VerifySpec == Init /\ [][VerifyNext]_vars

\* ------------------------------------- reconciliation pass, step by step
\* The cron handler with its notifications: the two sends per fulfilled
\* token, the retry queue and its drain.
MAX_RETRIES == 3
TELEGRAM_CHAT_ID == "main"
TELEGRAM_ORDERS_CHAT_ID == "orders"

\* What one call of the messaging endpoint can come to: the reply says
\* ok: true, the reply says otherwise, or fetch / response.json() throws.
SendOutcomes == {"ok", "notOk", "throw"}

\* what a step of the cron handler leaves alone besides tokens, the queue
\* and the handler's own state
cronFrame == <<envVars, propVars, modalVars, genVars, timerVars,
               pollInFlight, closed, sweep, apiVars, lookupVars, histVars>>

\* sendTelegramMessage(chatId, text, retryCount) on queue q with outcome o:
\* the queue it leaves and the value it returns.  Only the catch block
\* enqueues, and only while retryCount < MAX_RETRIES.
SendTelegramMessage(q, chatId, text, retryCount, o) ==
  IF o = "ok" THEN [queue |-> q, result |-> TRUE]
  ELSE IF o = "notOk" THEN [queue |-> q, result |-> FALSE]
  ELSE IF retryCount < MAX_RETRIES
  THEN [queue |-> Append(q, Message(chatId, text, retryCount + 1)),
        result |-> FALSE]
  ELSE [queue |-> q, result |-> FALSE]

\* The endpoint can throw while the queue has room (bound of the model).
Allowed(o) == o = "throw" => Len(messageQueue) < MaxQueue

\* The handler's select.  A failed read ends in the outer catch (500) and
\* no rows end the invocation with 'No pending payments to check' (200):
\* either way it is over at once, and without a drain.  Otherwise the loop
\* starts.
CronStart(c, fetchOk) ==
  /\ cron[c].pc = "idle"
  /\ cron' = [cron EXCEPT ![c] =
       IF ~fetchOk \/ SweepList(tokens, now) = <<>>
       THEN CronIdle
       ELSE [CronIdle EXCEPT !.pc = "verify1",
                             !.todo = SweepList(tokens, now)]]
  /\ UNCHANGED <<tokens, messageQueue, isProcessingQueue, cronFrame>>

\* The loop moves on to the next token, or goes on to processMessageQueue.
CronNextToken(s) ==
  IF Len(s.todo) > 1
  THEN [s EXCEPT !.pc = "verify1", !.todo = Tail(s.todo)]
  ELSE [s EXCEPT !.pc = "process", !.todo = <<>>]

CronVerify1(c, isVerified) ==
  /\ cron[c].pc = "verify1"
  /\ isVerified \in SweepReads(Head(cron[c].todo))
  /\ cron' = [cron EXCEPT ![c] =
       IF isVerified THEN [@ EXCEPT !.pc = "verify2", !.reads = 1]
       ELSE CronNextToken([@ EXCEPT !.reads = 0])]
  /\ UNCHANGED <<tokens, messageQueue, isProcessingQueue, cronFrame>>

CronVerify2(c, secondVerification) ==
  /\ cron[c].pc = "verify2"
  /\ secondVerification \in SweepReads(Head(cron[c].todo))
  /\ cron' = [cron EXCEPT ![c] =
       IF secondVerification THEN [@ EXCEPT !.pc = "update", !.reads = 2]
       ELSE CronNextToken(@)]
  /\ UNCHANGED <<tokens, messageQueue, isProcessingQueue, cronFrame>>

\* A variant in which an update error is thrown to the outer catch and ends
\* the invocation.
CronUpdateThrows(c, updateOk) ==
  /\ cron[c].pc = "update"
  /\ IF updateOk
     THEN /\ tokens' = MarkUsed(tokens, Head(cron[c].todo))
          /\ cron' = [cron EXCEPT ![c].pc = "sendMain"]
     ELSE /\ cron' = [cron EXCEPT ![c] = CronIdle]
          /\ UNCHANGED tokens
  /\ UNCHANGED <<messageQueue, isProcessingQueue, cronFrame>>

\* A variant that goes on to the sends whatever the update came to.
CronUpdateThenSend(c, updateOk) ==
  /\ cron[c].pc = "update"
  /\ tokens' = IF updateOk THEN MarkUsed(tokens, Head(cron[c].todo))
                ELSE tokens
  /\ cron' = [cron EXCEPT ![c].pc = "sendMain"]
  /\ UNCHANGED <<messageQueue, isProcessingQueue, cronFrame>>

\* update({used: true}).eq('id', token.id); an update error skips the token.
CronUpdate(c, updateOk) ==
  /\ cron[c].pc = "update"
  /\ IF updateOk
     THEN /\ tokens' = MarkUsed(tokens, Head(cron[c].todo))
          /\ cron' = [cron EXCEPT ![c].pc = "sendMain"]
     ELSE /\ cron' = [cron EXCEPT ![c] = CronNextToken(@)]
          /\ UNCHANGED tokens
  /\ UNCHANGED <<messageQueue, isProcessingQueue, cronFrame>>

\* mainSuccess = await sendTelegramMessage(TELEGRAM_CHAT_ID, mainMessage)
CronSendMain(c, o) ==
  /\ cron[c].pc = "sendMain"
  /\ Allowed(o)
  /\ LET h == Head(cron[c].todo)
         r == SendTelegramMessage(messageQueue, TELEGRAM_CHAT_ID, h, 0, o)
     IN /\ messageQueue' = r.queue
        /\ cron' = [cron EXCEPT ![c].pc = "sendOrders",
                                ![c].main = r.result]
  /\ UNCHANGED <<tokens, isProcessingQueue, cronFrame>>

\* A variant that collapses the two channels into one flag.
ResultEntryCollapsed(tokenId, mainSuccess, ordersSuccess) ==
  [tokenId |-> tokenId, mainGroupSent |-> mainSuccess /\ ordersSuccess,
   ordersGroupSent |-> mainSuccess /\ ordersSuccess]

\* The entry pushed on results for a fulfilled token.
ResultEntry(tokenId, mainSuccess, ordersSuccess) ==
  [tokenId |-> tokenId, mainGroupSent |-> mainSuccess,
   ordersGroupSent |-> ordersSuccess]

\* ordersSuccess = await sendTelegramMessage(TELEGRAM_ORDERS_CHAT_ID,
\* orderMessage), then results.push({tokenId, verified, mainGroupSent,
\* ordersGroupSent}).
CronSendOrders(c, o) ==
  /\ cron[c].pc = "sendOrders"
  /\ Allowed(o)
  /\ LET h == Head(cron[c].todo)
         r == SendTelegramMessage(messageQueue, TELEGRAM_ORDERS_CHAT_ID, h,
                                  0, o)
         entry == ResultEntry(h, cron[c].main, r.result)
     IN /\ messageQueue' = r.queue
        /\ cron' = [cron EXCEPT ![c] =
             CronNextToken([@ EXCEPT !.results = Append(@, entry)])]
  /\ UNCHANGED <<tokens, isProcessingQueue, cronFrame>>

\* A variant without the mutual-exclusion flag.
DrainSkippedNoFlag == Len(messageQueue) = 0

\* processMessageQueue, line 95: the call returns at once under this
\* condition.
DrainSkipped == isProcessingQueue \/ Len(messageQueue) = 0

\* processMessageQueue is called after the loop: it returns at once, or
\* takes the flag and enters its loop.
ProcessMessageQueue(c) ==
  /\ cron[c].pc = "process"
  /\ IF DrainSkipped
     THEN /\ cron' = [cron EXCEPT
               ![c].pc = "return",
               ![c].reads = 0,
               ![c].resp = "completed",
               ![c].skip = IF isProcessingQueue THEN "busy" ELSE "empty"]
          /\ UNCHANGED isProcessingQueue
     ELSE /\ cron' = [cron EXCEPT ![c].pc = "drain", ![c].reads = 0]
          /\ isProcessingQueue' = TRUE
  /\ UNCHANGED <<tokens, messageQueue, cronFrame>>

\* One round of the drain loop: the head is sent with its own retryCount.
\* Delivered: it is shifted, and an empty queue ends the loop (finally
\* clears the flag).  Not delivered: it is shifted only when its retryCount
\* has reached MAX_RETRIES, and the loop sleeps RETRY_DELAY.
DrainAttempt(c, o) ==
  /\ cron[c].pc = "drain"
  /\ Len(messageQueue) > 0
  /\ Allowed(o)
  /\ LET message == Head(messageQueue)
         r == SendTelegramMessage(messageQueue, message.chatId, message.text,
                                  message.retryCount, o)
         dropped == r.result \/ message.retryCount >= MAX_RETRIES
         left == IF dropped THEN Tail(r.queue) ELSE r.queue
     IN /\ messageQueue' = left
        /\ IF ~r.result
           THEN /\ cron' = [cron EXCEPT ![c].pc = "sleep"]
                /\ UNCHANGED isProcessingQueue
           ELSE IF left = <<>>
           THEN /\ cron' = [cron EXCEPT ![c].pc = "return",
                                        ![c].resp = "completed"]
                /\ isProcessingQueue' = FALSE
           ELSE UNCHANGED <<cron, isProcessingQueue>>
  /\ UNCHANGED <<tokens, cronFrame>>

\* The sleep is over and the queue still holds a message: another round.
DrainWake(c) ==
  /\ cron[c].pc = "sleep"
  /\ Len(messageQueue) > 0
  /\ cron' = [cron EXCEPT ![c].pc = "drain"]
  /\ UNCHANGED <<tokens, messageQueue, isProcessingQueue, cronFrame>>

\* The sleep is over and the queue is empty: finally clears the flag and
\* the handler goes on to its response.
DrainExit(c) ==
  /\ cron[c].pc = "sleep"
  /\ Len(messageQueue) = 0
  /\ cron' = [cron EXCEPT ![c].pc = "return", ![c].resp = "completed"]
  /\ isProcessingQueue' = FALSE
  /\ UNCHANGED <<tokens, messageQueue, cronFrame>>

\* The handler's response is sent.
CronReturn(c) ==
  /\ cron[c].pc = "return"
  /\ cron' = [cron EXCEPT ![c] = CronIdle]
  /\ UNCHANGED <<tokens, messageQueue, isProcessingQueue, cronFrame>>

\* The paid token of an earlier payment session waits for the pass.
Waiting == {1}

NotifyInit ==
  /\ now = StartTime
  /\ issued = Waiting
  /\ settled = Waiting
  /\ tokens = [h \in Hashes |->
                IF h \in Waiting
                THEN Reserve([g \in Hashes |-> AbsentToken], h,
                             StartTime - h)[h]
                ELSE AbsentToken]
  /\ SessionInit
  /\ discountPercent = 0

\* The steps of an invocation once it has started.
CronRun(c) ==
  \/ \E b \in BOOLEAN : CronVerify1(c, b)
  \/ \E b \in BOOLEAN : CronVerify2(c, b)
  \/ \E ok \in BOOLEAN : CronUpdate(c, ok)
  \/ \E o \in SendOutcomes : CronSendMain(c, o)
  \/ \E o \in SendOutcomes : CronSendOrders(c, o)
  \/ ProcessMessageQueue(c)
  \/ \E o \in SendOutcomes : DrainAttempt(c, o)
  \/ DrainWake(c)
  \/ DrainExit(c)
  \/ CronReturn(c)

NotifyNext ==
  \E c \in Sweepers :
    \/ \E fetchOk \in BOOLEAN : CronStart(c, fetchOk)
    \/ CronRun(c)

NotifySpec == NotifyInit /\ [][NotifyNext]_vars

\* Every invocation that has been started keeps running.
NotifyFair == NotifySpec /\ \A c \in Sweepers : WF_vars(CronRun(c))

\* ------------------------------------- one pass over several waiting tokens
\* Every hash has the pending token of an earlier payment session inside the
\* window (the older the higher its hash); some of the payments have
\* cleared, and some rows hold an order_data without md5 (the object the
\* client hands to create_payment_token has no such key).  One invocation of
\* the cron handler runs.
Single == 1

PassInit ==
  /\ now = StartTime
  /\ issued = Hashes
  /\ settled \in SUBSET Hashes
  /\ \E noMd5 \in SUBSET Hashes :
       tokens = [h \in Hashes |->
                  [Reserve([g \in Hashes |-> AbsentToken], h,
                           StartTime - h)[h]
                     EXCEPT !.orderData =
                       IF h \in noMd5 THEN "noMd5" ELSE "snapshot"]]
  /\ SessionInit
  /\ discountPercent = 0

PassNext ==
  \/ \E fetchOk \in BOOLEAN : CronStart(Single, fetchOk)
  \/ CronRun(Single)

PassSpec == PassInit /\ [][PassNext]_vars

\* ------------------------------------------------------------ OrderLookup
\* Texts are sequences of characters.
Space == " "

\* String.prototype.trim(): white space is removed at both ends.
RECURSIVE TrimStart(_)
TrimStart(t) ==
  IF t # <<>> /\ Head(t) = Space THEN TrimStart(Tail(t)) ELSE t

RECURSIVE TrimEnd(_)
TrimEnd(t) ==
  IF t # <<>> /\ t[Len(t)] = Space
  THEN TrimEnd(SubSeq(t, 1, Len(t) - 1)) ELSE t

Trim(t) == TrimEnd(TrimStart(t))

\* orderId.trim().replace(/^S/, ''): one leading capital S is removed.
SearchId(orderId) ==
  LET t == Trim(orderId)
  IN IF t # <<>> /\ Head(t) = "S" THEN Tail(t) ELSE t

\* The order ids the rows can carry (Date.now().toString(): digits; two
\* sessions can draw the same one) and the texts a visitor types.
StoredIds == {<<"1">>, <<"2">>}
EnteredIds == {<<>>, <<" ">>, <<"S">>, <<"1">>, <<"2">>, <<"S", "1">>,
               <<" ", "S", "1", " ">>, <<"s", "1">>, <<"A", "1">>,
               <<"S", "S", "1">>, <<"S", "3">>}

\* .eq('order_data->>orderId', searchId): the rows the query returns.
Matching(searchId) ==
  {h \in Hashes : orders[h] # NoOrderId /\ orders[h] = searchId}

\* A variant that shows the first of several rows.
LookupOutcomeFirstRow(data, searchError) ==
  IF searchError THEN [error |-> "failed", orderDetails |-> NoDetails]
  ELSE IF data = {} THEN [error |-> "notFound", orderDetails |-> NoDetails]
  ELSE LET h == CHOOSE x \in data : \A y \in data : x <= y
       IN [error |-> "none",
           orderDetails |-> [row |-> h, orderId |-> <<"S">> \o orders[h]]]

\* handleSubmit after its query: a search error is caught ('Failed to search
\* order'); no row gives 'Order not found', several rows 'Multiple orders
\* found'; a single row is formatted for display (orderId: `S${orderId}`).
LookupOutcome(data, searchError) ==
  IF searchError THEN [error |-> "failed", orderDetails |-> NoDetails]
  ELSE IF data = {} THEN [error |-> "notFound", orderDetails |-> NoDetails]
  ELSE IF Cardinality(data) > 1
  THEN [error |-> "multiple", orderDetails |-> NoDetails]
  ELSE LET h == CHOOSE x \in data : TRUE
       IN [error |-> "none",
           orderDetails |-> [row |-> h, orderId |-> <<"S">> \o orders[h]]]

\* onChange of the input.
SetOrderId(v) ==
  /\ v # lookup.orderId
  /\ lookup' = [lookup EXCEPT !.orderId = v]
  /\ UNCHANGED <<payVars, apiVars, notifyVars, orders>>

\* handleSubmit up to its await.  The submit button is disabled while a
\* search is running or the trimmed input is empty (the same test as the
\* return of line 42).
HandleSubmit ==
  /\ ~lookup.loading
  /\ Trim(lookup.orderId) # <<>>
  /\ lookup' = [lookup EXCEPT !.loading = TRUE,
                              !.error = "none",
                              !.orderDetails = NoDetails,
                              !.submitted = lookup.orderId,
                              !.searchId = SearchId(lookup.orderId)]
  /\ UNCHANGED <<payVars, apiVars, notifyVars, orders>>

\* handleSubmit after its await: the outcome is shown, and finally clears
\* loading.
QueryReply(searchError) ==
  /\ lookup.loading
  /\ LET data == IF searchError THEN {} ELSE Matching(lookup.searchId)
         out == LookupOutcome(data, searchError)
     IN lookup' = [lookup EXCEPT !.loading = FALSE,
                                 !.error = out.error,
                                 !.orderDetails = out.orderDetails]
  /\ UNCHANGED <<payVars, apiVars, notifyVars, orders>>

\* The table as the lookup finds it: every row carries an order id or none.
LookupInit ==
  /\ now = StartTime
  /\ orders \in [Hashes -> StoredIds \cup {NoOrderId}]
  /\ issued = {h \in Hashes : orders[h] # NoOrderId}
  /\ settled = {}
  /\ tokens = [h \in Hashes |->
                IF orders[h] # NoOrderId
                THEN Reserve([g \in Hashes |-> AbsentToken], h,
                             StartTime - h)[h]
                ELSE AbsentToken]
  /\ SessionInitOpen
  /\ discountPercent = 0

LookupNext ==
  \/ \E v \in EnteredIds : SetOrderId(v)
  \/ HandleSubmit
  \/ \E searchError \in BOOLEAN : QueryReply(searchError)

LookupSpec == LookupInit /\ [][LookupNext]_vars

\* The QR is on display (the claim's reading: qrCode set and not expired).
QrShown == qrCode /\ ~qrExpired

\* The session has a successful issuance behind it: the QR was issued at
\* lastQrGeneration and its token is reserved.
IssuedOk ==
  /\ lastQrGeneration # 0
  /\ pcGen = "idle"
  /\ md5Hash # NoHash
  /\ tokens[md5Hash].status # "absent"

\* A generateKHQR run that ends without a QR-creation request.
Refused == lastAttempt'.result \in {"blocked", "rateLimited"}

\* ================================================================= claims

\* C1: at-most-once fulfilment: however the sweep passes and the client
\* interleave, at most one of them performs the fulfilment of a token.
C1_AtMostOnceFulfilment == \A h \in Hashes : fulfilments[h] <= 1

C4_PriceChangeRefusal ==
  errorMessage = "priceChanged" =>
    /\ \A h \in Hashes : tokens[h].status = "absent"
    /\ ~QrShown
    /\ ~PollIntervalActive

\* C5: a token exists for every displayed QR: whenever a QR is shown, a
\* token keyed by its hash has been reserved.
C5_TokenForDisplayedQr ==
  QrShown => /\ md5Hash # NoHash
             /\ tokens[md5Hash].status # "absent"

\* C6: cooldown enforcement: after a successful issuance, an attempt inside
\* the 180 s window sends no QR-creation request, and an attempt after the
\* window (nothing else holding it back) sends one.
C6_CooldownEnforcement ==
  [][(GenerateKHQR /\ IssuedOk) =>
       IF now - lastQrGeneration < QR_COOLDOWN_PERIOD
       THEN Refused
       ELSE (~isProcessing /\ ~showMessage /\ finalAmount >= MinAmount)
              => lastAttempt'.result = "sent"]_vars

\* C7: an issuance refused t seconds (0 < t < 180) after the last
\* successful one surfaces the remaining 180 - t seconds as the cooldown.
C7_RemainingCooldownSurfaced ==
  [][(/\ GenerateKHQR
      /\ Refused
      /\ IssuedOk
      /\ now - lastQrGeneration > 0
      /\ now - lastQrGeneration < QR_COOLDOWN_PERIOD)
     => qrCooldown' = RemainingCooldown(now, lastQrGeneration)]_vars

\* C8: InvalidAmount: an issuance asked for with a final amount below 0.01
\* makes no network call and gives the caller an invalid-amount error.
C8_InvalidAmountRejected ==
  [][(GenerateKHQR /\ finalAmount < MinAmount /\ ~showMessage) =>
       /\ issuanceCalls' = 0
       /\ status' = "error"
       /\ errorMessage' = "invalidAmount"]_vars

\* C9: poll responses are tri-state: code 0 confirms; code 1 leaves the
\* poller polling with no error; any other code stops polling, surfaces a
\* message and sets the token unsuccessful.
C9_PollTriState ==
  [][/\ PollResponse("code0") => status' = "success"
     /\ PollResponse("code1") =>
          /\ UNCHANGED <<status, errorMessage>>
          /\ (PollIntervalActive => PollIntervalActive')
     /\ PollResponse("codeOther") =>
          /\ status' = "error"
          /\ errorMessage' # ""
          /\ ~PollIntervalActive'
          /\ (tokens[md5Hash].status # "absent" =>
                tokens'[md5Hash].status = "unsuccessful")]_vars

\* C10: a transport error on one poll attempt (a rejected request, such as
\* the endpoint's 500) is transient: the poller keeps polling and no timer
\* is cancelled.
C10_TransportErrorTransient ==
  [][PollResponse("throw") =>
       /\ status' = status
       /\ UNCHANGED timerVars
       /\ (PollIntervalActive => PollIntervalActive')]_vars

\* C12: once the QR has expired without the payment having cleared, the
\* session's token is stored as unsuccessful and used.
C12_ExpiryPersistsUnsuccessful ==
  (/\ qrExpired
   /\ md5Hash # NoHash
   /\ md5Hash \notin settled
   /\ tokens[md5Hash].status # "absent")
    => /\ tokens[md5Hash].status = "unsuccessful"
       /\ tokens[md5Hash].used

\* C13: expiry wins over a slow poll: while the session is expired, no poll
\* response moves it to success.
C13_ExpiryWinsOverSlowPoll ==
  [][qrExpired' => ~(status # "success" /\ status' = "success")]_vars

\* C14: when the live poller sees the payment confirmed, the session's
\* pending token is fulfilled on the spot: it is no longer pending and
\* unused after the response.
C14_PollerFulfils ==
  [][(/\ PollResponse("code0")
      /\ ~closed
      /\ tokens[md5Hash].status = "pending"
      /\ ~tokens[md5Hash].used)
       => tokens'[md5Hash].used]_vars

\* C15: once the modal is closed no timer of the session is active (poll
\* interval, cooldown interval, expiry timeout, expiry countdown), and
\* closing does not change the token.
C15_CancellationOnClose ==
  [][closed' =>
       /\ expiryTimeoutRef' = 0
       /\ cooldownIntervalRef' = FALSE
       /\ ~PollIntervalActive'
       /\ ~CountdownActive'
       /\ (HandleClose => tokens' = tokens)]_vars

\* C11: the verify-payment endpoint calls the switch at most three times
\* for one request; a 2xx reply is answered at once with 200 and a 4xx reply
\* at once with its status, so only 5xx replies and rejected fetches are
\* followed by another call; after three of those the answer is 500 with
\* responseCode 1.
Retryable(r) == r.status = NoStatus \/ r.status >= 500

C11_RetryWrapper ==
  LET n == Len(api.log)
  IN /\ n <= maxAttempts
     /\ \A i \in 1..(n - 1) : Retryable(api.log[i])
     /\ (api.pc = "done" /\ n > 0) =>
          /\ api.log[n].status \in 200..299 => api.resp.status = 200
          /\ api.log[n].status \in 400..499 =>
               api.resp.status = api.log[n].status
          /\ Retryable(api.log[n]) =>
               /\ n = maxAttempts
               /\ api.resp = [status |-> 500, responseCode |-> 1]

\* C16: every failed immediate delivery of a notification, the endpoint
\* throwing or answering without acknowledging, leaves one message for that
\* chat and text at the tail of the queue with retryCount 1, and the caller
\* gets `false`.
C16_FailedSendEnqueued ==
  [][\A c \in Sweepers, o \in {"notOk", "throw"} :
       /\ CronSendMain(c, o) =>
            /\ messageQueue' =
                 Append(messageQueue,
                        Message(TELEGRAM_CHAT_ID, Head(cron[c].todo), 1))
            /\ cron'[c].main = FALSE
       /\ CronSendOrders(c, o) =>
            /\ messageQueue' =
                 Append(messageQueue,
                        Message(TELEGRAM_ORDERS_CHAT_ID, Head(cron[c].todo),
                                1))
            /\ cron'[c].results[Len(cron'[c].results)].ordersGroupSent
                 = FALSE]_vars

\* The invocations inside the drain loop.
Draining == {c \in Sweepers : cron[c].pc \in {"drain", "sleep"}}

\* C17: the drain is single-flight and FIFO: at most one invocation is in
\* the drain loop; a call made while one is running returns without
\* touching the queue; the queue only grows at its tail and shrinks at its
\* head (so the head, which is what a round sends, is the oldest entry);
\* and a round removes the head only when its send was acknowledged or its
\* retryCount has reached MAX_RETRIES.
C17_SingleFlightFifo ==
  [][/\ Cardinality(Draining') <= 1
     /\ isProcessingQueue' <=> Draining' # {}
     /\ \A c \in Sweepers :
          (ProcessMessageQueue(c) /\ isProcessingQueue) =>
            /\ cron'[c].pc = "return"
            /\ UNCHANGED <<messageQueue>>
     /\ Len(messageQueue') > Len(messageQueue) =>
          /\ Len(messageQueue') = Len(messageQueue) + 1
          /\ SubSeq(messageQueue', 1, Len(messageQueue)) = messageQueue
     /\ Len(messageQueue') = Len(messageQueue) =>
          messageQueue' = messageQueue
     /\ Len(messageQueue') < Len(messageQueue) =>
          /\ messageQueue' = Tail(messageQueue)
          /\ \E c \in Draining, o \in SendOutcomes :
               /\ DrainAttempt(c, o)
               /\ o = "ok" \/ Head(messageQueue).retryCount >= MAX_RETRIES
    ]_vars

\* One invocation is in the drain loop after a failed round, the queue
\* still holds messages, and another invocation has called
\* processMessageQueue and was turned away by the flag.
C17_Witness ==
  \E c, d \in Sweepers :
    /\ cron[c].pc = "sleep"
    /\ cron[d].pc = "return"
    /\ cron[d].skip = "busy"
    /\ Len(messageQueue) > 0

\* C18: retries are bounded, so every drain terminates with an empty
\* queue, even when the messaging endpoint never succeeds.
C18_BoundedRetry ==
  isProcessingQueue ~> (~isProcessingQueue /\ messageQueue = <<>>)

\* C19: notification failures do not reach the fulfilment path: once a
\* token has been marked used, whatever the sends and the drain come to,
\* the token stays used and the pass goes on to return its
\* 'Payment check completed' response.
C19_NotificationFailuresContained ==
  \A c \in Sweepers :
    /\ [](cron[c].pc \in {"sendMain", "sendOrders"} =>
            tokens[Head(cron[c].todo)].used)
    /\ (cron[c].pc = "sendMain") ~>
         (cron[c].pc = "return" /\ cron[c].resp = "completed")

\* C20: the two channels of a fulfilled token are dispatched independently
\* and reported per channel: whatever the send to the main chat comes to,
\* the send to the orders chat is the handler's next step; the result entry
\* of the token carries the outcome of each send in its own flag (false
\* standing for 'not delivered'; a send that failed by throwing has left
\* its message in the queue); and the token is marked used.
C20_NotificationIndependence ==
  [][\A c \in Sweepers, o \in SendOutcomes :
       /\ CronSendMain(c, o) =>
            /\ cron'[c].pc = "sendOrders"
            /\ cron'[c].main = (o = "ok")
            /\ cron'[c].todo = cron[c].todo
            /\ o = "throw" =>
                 messageQueue' =
                   Append(messageQueue,
                          Message(TELEGRAM_CHAT_ID, Head(cron[c].todo), 1))
       /\ CronSendOrders(c, o) =>
            /\ Len(cron'[c].results) = Len(cron[c].results) + 1
            /\ cron'[c].results[Len(cron'[c].results)] =
                 [tokenId |-> Head(cron[c].todo),
                  mainGroupSent |-> cron[c].main,
                  ordersGroupSent |-> (o = "ok")]
            /\ tokens'[Head(cron[c].todo)].used]_vars

\* A pass holds a result whose first channel failed and whose second
\* channel delivered.
C20_Witness ==
  \E c \in Sweepers :
    \E i \in 1..Len(cron[c].results) :
      /\ ~cron[c].results[i].mainGroupSent
      /\ cron[c].results[i].ordersGroupSent
      /\ tokens[cron[c].results[i].tokenId].used

\* The row of h is inside the pass's lookback window at this moment.
InWindow(h) == tokens[h].createdAt > now - PAYMENT_WINDOW

\* The token of h is pending: stored, not terminal and not used.
PendingToken(h) == tokens[h].status = "pending" /\ ~tokens[h].used

\* C21: sweeper selection: a pass selects exactly the pending tokens created
\* within the last 30 minutes, and every settlement check and every
\* fulfilment of the sweep is applied to a token that is pending and inside
\* the window at that moment, never to a terminal or an older one.
C21_SweeperSelection ==
  [][\A c \in Sweepers :
       /\ SweepStart(c) =>
            {sweep'[c].todo[i] : i \in 1..Len(sweep'[c].todo)} =
              {h \in Hashes : PendingToken(h) /\ InWindow(h)}
       /\ \A b \in BOOLEAN :
            (SweepVerify1(c, b) \/ SweepVerify2(c, b) \/ SweepFulfil(c, b)) =>
              /\ PendingToken(Head(sweep[c].todo))
              /\ InWindow(Head(sweep[c].todo))]_vars

\* C24: sweeper recovery: when a pass has handled a reserved token that is
\* inside the window and whose payment has cleared, it leaves the token
\* fulfilled (marked used, its messages dispatched).
C24_SweeperRecovery ==
  [][\A c \in Sweepers :
       LET h == Head(sweep[c].todo)
       IN (/\ sweep[c].pc \in {"verify1", "verify2", "update"}
           /\ sweep'[c].pc \in {"verify1", "idle"}
           /\ sweep'[c] # sweep[c]
           /\ tokens[h].status # "absent"
           /\ h \in settled
           /\ InWindow(h))
            => /\ tokens'[h].used
               /\ fulfilments'[h] > 0]_vars

C27_UsedIffTerminal ==
  \A h \in Hashes :
    tokens[h].status # "absent" =>
      /\ tokens[h].used <=> tokens[h].status \in {"fulfilled", "unsuccessful"}
      /\ ~tokens[h].used <=> tokens[h].status = "pending"

\* C28: success is absorbing: while the modal stays open, no step takes the
\* session out of 'success' or marks its QR expired.
C28_SuccessAbsorbing ==
  [][(status = "success" /\ ~closed') =>
       /\ status' = "success"
       /\ qrExpired' = qrExpired]_vars

\* C29: the queue holds at most one entry per original send: a round of
\* the drain appends nothing, it leaves the queue as it was or without its
\* head, so the queue never grows through a retry.
C29_RetryAppendsNothing ==
  [][\A c \in Sweepers, o \in SendOutcomes :
       DrainAttempt(c, o) =>
         /\ Len(messageQueue') <= Len(messageQueue)
         /\ messageQueue' \in {messageQueue, Tail(messageQueue)}]_vars

\* The positions of an invocation inside its loop over the tokens.
InLoop == {"verify1", "verify2", "update", "sendMain", "sendOrders"}

\* C22: double-verification gate: a token is fulfilled only after two
\* consecutive checks of its hash both answered settled (a 2xx reply with
\* responseCode 0, which the switch gives only for a cleared payment); any
\* other answer to the first or to the second check (pending, a non-2xx
\* reply, an error) makes the pass go on to the next token with the token
\* untouched, nothing sent and no result recorded.
C22_DoubleVerificationGate ==
  [][\A c \in Sweepers :
       LET h == Head(cron[c].todo)
           passedOver ==
             /\ cron'[c].pc \in {"verify1", "process"}
             /\ cron'[c].todo = Tail(cron[c].todo)
             /\ cron'[c].results = cron[c].results
             /\ tokens' = tokens
             /\ messageQueue' = messageQueue
       IN /\ \A r \in SwitchReplies :
               LET saysSettled ==
                     r.status \in 200..299 /\ r.json /\ r.code = 0
               IN /\ (CronVerify1(c, VerifyPayment(r)) /\ ~saysSettled)
                       => passedOver
                  /\ (CronVerify2(c, VerifyPayment(r)) /\ ~saysSettled)
                       => passedOver
          /\ (cron[c].pc # "verify2" /\ cron'[c].pc = "verify2") =>
               /\ cron[c].pc = "verify1"
               /\ cron'[c].todo = cron[c].todo
               /\ h \in settled
          /\ (cron[c].pc # "update" /\ cron'[c].pc = "update") =>
               /\ cron[c].pc = "verify2"
               /\ cron'[c].todo = cron[c].todo
               /\ h \in settled
          /\ (cron[c].pc # "sendMain" /\ cron'[c].pc = "sendMain") =>
               cron[c].pc = "update"
          /\ (tokens' # tokens /\ cron'[c] # cron[c]) =>
               /\ cron[c].pc = "update"
               /\ cron[c].reads = 2]_vars

\* A pass has gone past a token whose first check said settled and whose
\* second check did not: the token is unused and nothing was sent or
\* recorded.
C22_Witness ==
  \E c \in Sweepers :
    /\ cron[c].reads = 1
    /\ cron[c].pc = "process"
    /\ cron[c].results = <<>>
    /\ messageQueue = <<>>
    /\ \A h \in Hashes : ~tokens[h].used

C30_FulfilBeforeNotify ==
  [][\A c \in Sweepers :
       LET h == Head(cron[c].todo)
       IN /\ (cron[c].pc # "sendMain" /\ cron'[c].pc = "sendMain") =>
               /\ CronUpdate(c, TRUE)
               /\ cron'[c].todo = cron[c].todo
               /\ tokens'[h].used
          /\ (cron[c].pc # "sendOrders" /\ cron'[c].pc = "sendOrders") =>
               /\ cron[c].pc = "sendMain"
               /\ cron'[c].todo = cron[c].todo
          /\ \A o \in SendOutcomes :
               (CronSendMain(c, o) \/ CronSendOrders(c, o)) => tokens[h].used
          /\ Len(cron'[c].results) > Len(cron[c].results) =>
               /\ cron[c].pc = "sendOrders"
               /\ cron'[c].results[Len(cron'[c].results)].tokenId = h
          /\ Len(messageQueue') > Len(messageQueue) =>
               tokens[messageQueue'[Len(messageQueue')].text].used
          /\ CronUpdate(c, FALSE) =>
               /\ cron'[c].pc \in {"verify1", "process"}
               /\ cron'[c].todo = Tail(cron[c].todo)
               /\ cron'[c].results = cron[c].results
               /\ messageQueue' = messageQueue
               /\ tokens' = tokens]_vars

\* A pass has gone past a token whose two checks said settled and whose
\* update failed: no result, nothing queued, the token unused.
C30_Witness ==
  \E c \in Sweepers :
    /\ cron[c].reads = 2
    /\ cron[c].pc = "process"
    /\ cron[c].results = <<>>
    /\ messageQueue = <<>>
    /\ \A h \in Hashes : ~tokens[h].used

\* C25: order lookup by external order id: with one optional leading
\* letter taken off the entered id, an order is put on display only when
\* exactly one row carries that id, and it is that row; with no such row or
\* with several the lookup shows an error and no order; details and an
\* error are never shown together, and only the answer of a search puts
\* details on display.
C25_LookupExactlyOne ==
  [][/\ \A searchError \in BOOLEAN :
          QueryReply(searchError) =>
            LET t == Trim(lookup.submitted)
                id == IF t # <<>> /\ Head(t) \in {"S", "s", "A"}
                      THEN Tail(t) ELSE t
                M == {h \in Hashes : orders[h] # NoOrderId /\ orders[h] = id}
            IN /\ lookup'.orderDetails # NoDetails =>
                    /\ Cardinality(M) = 1
                    /\ lookup'.orderDetails.row \in M
               /\ Cardinality(M) # 1 =>
                    /\ lookup'.error # "none"
                    /\ lookup'.orderDetails = NoDetails
     /\ lookup'.orderDetails # NoDetails => lookup'.error = "none"
     /\ (lookup'.orderDetails # lookup.orderDetails
           /\ lookup'.orderDetails # NoDetails)
          => \E searchError \in BOOLEAN : QueryReply(searchError)]_vars

\* A search has ended on several rows with the id searched for: the error is
\* shown and no order.
C25_Witness ==
  /\ ~lookup.loading
  /\ Cardinality(Matching(lookup.searchId)) > 1
  /\ lookup.error = "multiple"
  /\ lookup.orderDetails = NoDetails

====
